---- MODULE Spec2Model ----
(***************************************************************************)
(* A model of dockmon_cli.py: the Host/Container entity model, the version *)
(* inference, the container filter, the human-relative-time formatter, and *)
(* the reconcile / act / render pass of main().                            *)
(*                                                                         *)
(* Encoding of Python values.  Strings that the code searches or splits    *)
(* (container names, image references, the -c / -i filters) are sequences  *)
(* of one-character strings.  Strings that are only compared or printed    *)
(* (versions, host names, ids) are TLA+ strings.  Python's None is the     *)
(* token None among strings and NoneSeq among character sequences.  A dict *)
(* is a function whose DOMAIN is its key set.  A datetime is a record      *)
(* [k |-> "datetime", sec, us]; the text of an ISO-8601 timestamp is a     *)
(* record [k |-> "iso", sec, ns] (its nine fractional digits), and a text  *)
(* that datetime.fromisoformat rejects is [k |-> "bad"].                   *)
(***************************************************************************)
EXTENDS Integers, Sequences, FiniteSets, TLC

VARIABLES
    input,      \* the argument of the pure function a specification applies
    output,     \* its result; Unset before the call
    args,       \* the parsed command line of main()
    api,        \* what the remote service answers in this invocation
    pc,         \* the position of main()
    idx,        \* position of the loops over listings
    hosts,      \* get_container_status's dict: host id -> Host object
    objs,       \* the Container objects constructed so far, by listing index
    fetches,    \* answers to the update-status GETs issued, by listing index
    posts,      \* mutating POSTs issued, in order
    err,        \* the exception that ended the run, or OK
    stdout,     \* what json_format / the json branches printed
    calls       \* log of Host.add_container calls: <<host id, listing index>>

pureVars == <<input, output>>
mainVars == <<args, api, pc, idx, hosts, objs, fetches, posts, err, stdout, calls>>
vars == <<input, output, args, api, pc, idx, hosts, objs, fetches, posts, err, stdout,
          calls>>

None == "<None>"
NoneSeq == <<"<None>">>
Unset == "<unset>"
OK == "ok"

\* Python truthiness of an optional string / optional character sequence.
Truthy(s) == s # None /\ s # ""
TruthySeq(s) == s # NoneSeq /\ s # <<>>

\* Python's `a in b` on strings.
IsSubstring(a, b) ==
    \E i \in 0..(Len(b) - Len(a)) : SubSeq(b, i + 1, i + Len(a)) = a

\* All character sequences over alphabet A of length at most n.
Strs(A, n) == UNION {[1..k -> A] : k \in 0..n}

(***************************************************************************)
(* _container_match                                                        *)
(***************************************************************************)
partial_names == {<<"w","w","w">>, <<"p","h","p">>,
                  <<"l","i","b","r","e","n","m","s">>}

ContainerMatchNameOnlyExact(container, name_match, image_match) ==
    IF ~TruthySeq(name_match) /\ ~TruthySeq(image_match) THEN TRUE
    ELSE IF TruthySeq(name_match) /\ TruthySeq(image_match) THEN
        IsSubstring(image_match, container.image) /\ name_match = container.name
    ELSE IF TruthySeq(name_match) /\ ~TruthySeq(image_match) THEN
        name_match = container.name
    ELSE IsSubstring(image_match, container.image)

ContainerMatch(container, name_match, image_match) ==
    IF ~TruthySeq(name_match) /\ ~TruthySeq(image_match) THEN TRUE
    ELSE IF TruthySeq(name_match) /\ TruthySeq(image_match) THEN
        IF IsSubstring(image_match, container.image) THEN
            IF name_match = container.name THEN TRUE
            ELSE IF name_match \in partial_names
                    /\ IsSubstring(name_match, container.name) THEN TRUE
            ELSE FALSE
        ELSE FALSE
    ELSE IF TruthySeq(name_match) /\ ~TruthySeq(image_match) THEN
        IF name_match = container.name THEN TRUE
        ELSE IF name_match \in partial_names
                /\ IsSubstring(name_match, container.name) THEN TRUE
        ELSE FALSE
    ELSE IF TruthySeq(image_match) /\ ~TruthySeq(name_match) THEN
        IF IsSubstring(image_match, container.image) THEN TRUE ELSE FALSE
    ELSE FALSE

(***************************************************************************)
(* datetime arithmetic and Container.human_time_diff                       *)
(***************************************************************************)
DateTime(sec, us) == [k |-> "datetime", sec |-> sec, us |-> us]

\* int((now - past).total_seconds()): int() truncates toward zero.
DeltaSeconds(past, now) ==
    LET dsec == now.sec - past.sec
        dus  == now.us - past.us
    IN  IF dsec > 0 /\ dus < 0 THEN dsec - 1
        ELSE IF dsec < 0 /\ dus > 0 THEN dsec + 1
        ELSE dsec

\* The formatters return text; it is modelled as the sequence of its
\* space-separated words, so "for 5 minutes" is <<"for", "5", "minutes">>.
HumanTimeDiffFuture(seconds) ==
    IF seconds < 60 THEN <<"in", ToString(seconds), "seconds">>
    ELSE LET minutes == seconds \div 60 IN
    IF minutes < 60 THEN
        IF minutes = 1 THEN <<"in", "1", "minute">>
        ELSE <<"in", ToString(minutes), "minutes">>
    ELSE LET hours == minutes \div 60 IN
    IF hours < 24 THEN
        IF hours = 1 THEN <<"in", "1", "hour">>
        ELSE <<"in", ToString(hours), "hours">>
    ELSE LET days == hours \div 24 IN
    IF days < 7 THEN
        IF days = 1 THEN <<"tomorrow">>
        ELSE <<"in", ToString(days), "days">>
    ELSE LET weeks == days \div 7 IN
    IF weeks < 5 THEN
        IF weeks = 1 THEN <<"in", "1", "week">>
        ELSE <<"in", ToString(weeks), "weeks">>
    ELSE LET months == days \div 30 IN
    IF months < 12 THEN
        IF months = 1 THEN <<"in", "1", "month">>
        ELSE <<"in", ToString(months), "months">>
    ELSE LET years == days \div 365 IN
        IF years = 1 THEN <<"in", "1", "year">>
        ELSE <<"in", ToString(years), "years">>

HumanTimeDiffWeekBoundaryOff(past, now) ==
    LET seconds == DeltaSeconds(past, now) IN
    IF seconds < 0 THEN HumanTimeDiffFuture(-seconds)
    ELSE IF seconds < 60 THEN <<"for", ToString(seconds), "seconds">>
    ELSE LET minutes == seconds \div 60 IN
    IF minutes < 60 THEN
        IF minutes = 1 THEN <<"for", "1", "minute">>
        ELSE <<"for", ToString(minutes), "minutes">>
    ELSE LET hours == minutes \div 60 IN
    IF hours < 24 THEN
        IF hours = 1 THEN <<"for", "1", "hour">>
        ELSE <<"for", ToString(hours), "hours">>
    ELSE LET days == hours \div 24 IN
    IF days = 1 THEN <<"since", "yesterday">>
    ELSE IF days <= 7 THEN <<"for", ToString(days), "days">>
    ELSE LET weeks == days \div 7 IN
    IF weeks < 5 THEN
        IF weeks = 1 THEN <<"for", "1", "week">>
        ELSE <<"for", ToString(weeks), "weeks">>
    ELSE LET months == days \div 30 IN
    IF months < 12 THEN
        IF months = 1 THEN <<"for", "1", "month">>
        ELSE <<"for", ToString(months), "months">>
    ELSE LET years == days \div 365 IN
        IF years = 1 THEN <<"for", "1", "year">>
        ELSE <<"for", ToString(years), "years">>

HumanTimeDiff(past, now) ==
    LET seconds == DeltaSeconds(past, now) IN
    IF seconds < 0 THEN HumanTimeDiffFuture(-seconds)
    ELSE IF seconds < 60 THEN <<"for", ToString(seconds), "seconds">>
    ELSE LET minutes == seconds \div 60 IN
    IF minutes < 60 THEN
        IF minutes = 1 THEN <<"for", "1", "minute">>
        ELSE <<"for", ToString(minutes), "minutes">>
    ELSE LET hours == minutes \div 60 IN
    IF hours < 24 THEN
        IF hours = 1 THEN <<"for", "1", "hour">>
        ELSE <<"for", ToString(hours), "hours">>
    ELSE LET days == hours \div 24 IN
    IF days = 1 THEN <<"since", "yesterday">>
    ELSE IF days < 7 THEN <<"for", ToString(days), "days">>
    ELSE LET weeks == days \div 7 IN
    IF weeks < 5 THEN
        IF weeks = 1 THEN <<"for", "1", "week">>
        ELSE <<"for", ToString(weeks), "weeks">>
    ELSE LET months == days \div 30 IN
    IF months < 12 THEN
        IF months = 1 THEN <<"for", "1", "month">>
        ELSE <<"for", ToString(months), "months">>
    ELSE LET years == days \div 365 IN
        IF years = 1 THEN <<"for", "1", "year">>
        ELSE <<"for", ToString(years), "years">>

(***************************************************************************)
(* Container: construction, version inference, timestamps                  *)
(***************************************************************************)
\* dict.get(key) for string values, and for timestamp values.
Get(d, key) == IF key \in DOMAIN d THEN d[key] ELSE None
GetTs(d, key) == IF key \in DOMAIN d THEN d[key] ELSE [k |-> "none"]

\* parse_ns_iso8601: a timestamp text is cut to six fractional digits and
\* parsed; None (AttributeError) or unparsable text (ValueError) gives now().
ParseNsIso8601(s, now) ==
    IF s.k = "iso" THEN DateTime(s.sec, s.ns \div 1000) ELSE now

\* strftime("%Y-%m-%d %H:%M:%S"): the text of a datetime, to the second.
Strftime(dt) == [k |-> "text", sec |-> dt.sec]

\* s.split(":", 1): the part before the first colon, and whether there is
\* a part after it.
FirstIndex(s, ch) ==
    IF \E i \in 1..Len(s) : s[i] = ch
    THEN CHOOSE i \in 1..Len(s) : s[i] = ch /\ \A j \in 1..(i - 1) : s[j] # ch
    ELSE 0
LastIndex(s, ch) ==
    IF \E i \in 1..Len(s) : s[i] = ch
    THEN CHOOSE i \in 1..Len(s) : s[i] = ch /\ \A j \in (i + 1)..Len(s) : s[j] # ch
    ELSE 0
BeforeFirst(s, ch) ==
    IF FirstIndex(s, ch) = 0 THEN s ELSE SubSeq(s, 1, FirstIndex(s, ch) - 1)
AfterLast(s, ch) == SubSeq(s, LastIndex(s, ch) + 1, Len(s))

version_env_strings == {"PG_VERSION", "REDIS_VERSION", "INFLUXDB_VERSION"}

\* `for env in container['env']: if env in keys: version = container['env'][env]`
\* over a dict in insertion order (a sequence of <<key, value>>): the value
\* of the last listed key wins.
EnvScan(env, keys, version) ==
    LET hits == {i \in 1..Len(env) : env[i][1] \in keys}
    IN  IF hits = {} THEN version
        ELSE env[CHOOSE i \in hits : \A j \in hits : j <= i][2]

\* The result of a call that may raise: err is OK or the exception's name.
Ret(v) == [err |-> OK, val |-> v]
Raise(e) == [err |-> e]

GetVersion(container) ==
    IF "labels" \notin DOMAIN container THEN Raise("AttributeError")
    ELSE IF FirstIndex(container.image, ":") = 0 THEN Raise("IndexError")
    ELSE
    LET v0 == Get(container.labels, "org.opencontainers.image.version")
        image_name == AfterLast(BeforeFirst(container.image, ":"), "/")
        v1 == IF ~Truthy(v0)
              THEN EnvScan(container.env, version_env_strings, v0) ELSE v0
        v2 == IF ~Truthy(v1) /\ image_name = <<"p","h","p">>
              THEN EnvScan(container.env, {"PHP_VERSION"}, v1) ELSE v1
        v3 == IF ~Truthy(v2) /\ image_name = <<"n","g","i","n","x">>
              THEN EnvScan(container.env, {"NGINX_VERSION"}, v2) ELSE v2
        v4 == IF ~Truthy(v3) /\ image_name = <<"p","y","t","h","o","n">>
              THEN EnvScan(container.env, {"PYTHON_VERSION"}, v3) ELSE v3
    IN  Ret(v4)

\* Container.__init__
ContainerNew(cont, now) ==
    LET v == GetVersion(cont) IN
    IF v.err # OK THEN Raise(v.err)
    ELSE Ret([id             |-> cont.id,
              name           |-> cont.name,
              host_id        |-> cont.host_id,
              host           |-> None,
              image          |-> cont.image,
              state          |-> cont.state,
              container_id   |-> cont.host_id \o ":" \o cont.id,
              created        |-> ParseNsIso8601(GetTs(cont, "created"), now),
              started        |-> ParseNsIso8601(GetTs(cont, "created"), now),
              _update_status |-> [update_available |-> FALSE],
              _version       |-> v.val])

\* Container.version
Version(c) == IF Truthy(c._version) THEN c._version ELSE "N/A"

\* Container.update_available
UpdateAvailable(c) == c._update_status.update_available

\* human_time_diff(...).replace("since", "").replace("for ", "") + " ago",
\* on the words of the text; the empty word left by "since" is the leading
\* space of " yesterday ago".
LastCheckedText(words) ==
    (IF Head(words) = "for" THEN Tail(words)
     ELSE IF Head(words) = "since" THEN <<"">> \o Tail(words)
     ELSE words) \o <<"ago">>

\* dict[key] = value
DictSet(d, key, value) ==
    [x \in DOMAIN d \cup {key} |-> IF x = key THEN value ELSE d[x]]

\* Container.update_status (setter).  The subscript on 'current_version'
\* raises KeyError when the payload has no such key.
SetUpdateStatus(c, update_status, now) ==
    IF "current_version" \notin DOMAIN update_status THEN Raise("KeyError")
    ELSE
    LET s1 == IF ~Truthy(update_status.current_version) /\ Truthy(c._version)
              THEN DictSet(update_status, "current_version", c._version)
              ELSE update_status
        at == GetTs(s1, "last_checked_at")
        s2 == IF at.k # "none"
              THEN LET parsed == ParseNsIso8601(at, now) IN
                   DictSet(DictSet(s1, "last_checked_at", parsed),
                           "last_checked", LastCheckedText(HumanTimeDiff(parsed, now)))
              ELSE s1
    IN  Ret([c EXCEPT !._update_status = s2])

\* Container.update_status_dict: ret is the object's own dict, so the
\* formatted text replaces the datetime in the object; strftime on a value
\* that is already text raises AttributeError.
UpdateStatusDict(c) ==
    LET at == GetTs(c._update_status, "last_checked_at") IN
    IF at.k = "none" THEN Ret([obj |-> c, ret |-> c._update_status])
    ELSE IF at.k # "datetime" THEN Raise("AttributeError")
    ELSE LET s == DictSet(c._update_status, "last_checked_at", Strftime(at))
         IN  Ret([obj |-> [c EXCEPT !._update_status = s], ret |-> s])

\* Host.as_summary_dict
HostAsSummaryDict(h) == [id |-> h.id, name |-> h.name]

\* The Host object a back-reference (a host id) refers to.
HostById(hs, id) == hs[CHOOSE i \in 1..Len(hs) : hs[i].id = id]

\* Container.as_dict, given the Host objects hs
AsDict(c, hs, now) ==
    LET u == UpdateStatusDict(c) IN
    IF c.host = None THEN Raise("AttributeError")
    ELSE IF u.err # OK THEN Raise(u.err)
    ELSE Ret([obj |-> u.val.obj,
              ret |-> [id            |-> c.id,
                       container_id  |-> c.container_id,
                       name          |-> c.name,
                       host          |-> HostAsSummaryDict(HostById(hs, c.host)),
                       update_status |-> u.val.ret,
                       version       |-> Version(c),
                       state         |-> c.state,
                       image         |-> c.image,
                       created       |-> Strftime(c.created),
                       started       |-> Strftime(c.started),
                       running_for   |-> HumanTimeDiff(c.started, now)]])

(***************************************************************************)
(* Host                                                                    *)
(***************************************************************************)
\* Host.__init__; _containers holds references to Container objects, which
\* are the indices of objs.
HostNew(host) ==
    [id |-> host.id, name |-> host.name, _containers |-> <<>>,
     container_order |-> "name"]

\* Code-point order of the characters the model's strings use.
CharOrder == <<"/", "1", "8", ":", "b", "d", "e", "g", "h", "i", "l", "m",
               "n", "o", "p", "r", "s", "t", "u", "w", "x", "y">>
CharRank(ch) == CHOOSE i \in 1..Len(CharOrder) : CharOrder[i] = ch

\* a < b on str
StrLess(a, b) ==
    \E k \in 1..Len(b) :
        /\ \A j \in 1..(k - 1) : j <= Len(a) /\ a[j] = b[j]
        /\ \/ k = Len(a) + 1
           \/ k <= Len(a) /\ CharRank(a[k]) < CharRank(b[k])

\* The sort key of Container c under a container_order, and < on keys.
SortKey(c, order) ==
    CASE order = "image"            -> c.image
      [] order = "state"            -> c.state
      [] order = "update_available" -> UpdateAvailable(c)
      [] OTHER                      -> c.name
KeyLess(a, b, order) ==
    IF order = "update_available" THEN (~a /\ b) ELSE StrLess(a, b)

\* Host.containers (getter): sorted() is stable and returns a new list.
HostContainers(h, os) ==
    LET cs == h._containers
        n  == Len(cs)
        key(i) == SortKey(os[cs[i]], h.container_order)
        before(i, j) == \/ KeyLess(key(i), key(j), h.container_order)
                        \/ /\ ~KeyLess(key(j), key(i), h.container_order)
                           /\ i < j
        rank(i) == Cardinality({j \in 1..n : before(j, i)}) + 1
    IN  [p \in 1..n |-> cs[CHOOSE i \in 1..n : rank(i) = p]]

\* Host.add_container on the host at position hp of hs, for Container ci:
\* the new hosts and objects.
AddContainerNoBackref(hs, os, hp, ci) ==
    [hosts |-> [hs EXCEPT ![hp]._containers = Append(@, ci)],
     objs  |-> os]

AddContainer(hs, os, hp, ci) ==
    [hosts |-> [hs EXCEPT ![hp]._containers = Append(@, ci)],
     objs  |-> [os EXCEPT ![ci].host = hs[hp].id]]

\* Host.containers (setter): add_container for each element, in order.
RECURSIVE SetContainers(_, _, _, _)
SetContainers(hs, os, hp, containers) ==
    IF containers = <<>> THEN [hosts |-> hs, objs |-> os]
    ELSE LET r == AddContainer(hs, os, hp, Head(containers))
         IN  SetContainers(r.hosts, r.objs, hp, Tail(containers))

(***************************************************************************)
(* Specifications of the pure functions: the input is drawn in Init and    *)
(* one action applies the function.  main()'s variables stay idle.         *)
(***************************************************************************)
MainIdle ==
    /\ args = Unset /\ api = Unset /\ pc = "idle" /\ idx = 0
    /\ hosts = <<>> /\ objs = <<>> /\ fetches = <<>> /\ posts = <<>>
    /\ err = OK /\ stdout = <<>> /\ calls = <<>>

Pending == [done |-> FALSE]
Done(v) == [done |-> TRUE, val |-> v]

\* ---- _container_match ----
MaxNameLen == 3

www == <<"w","w","w">>
php == <<"p","h","p">>
librenms == <<"l","i","b","r","e","n","m","s">>

MatchNames ==
    Strs({"w", "1"}, MaxNameLen + 1)
        \cup {php, <<"p","h","p","1">>, <<"p","h">>, librenms, librenms \o <<"1">>}
MatchNameFilters ==
    {NoneSeq} \cup Strs({"w", "1"}, MaxNameLen) \cup {php, <<"p","h">>, librenms}
MatchImages ==
    {<<"p","h","p",":","8">>, <<"n","g","i","n","x",":","1">>, <<"w",":","1">>}
MatchImageFilters ==
    {NoneSeq, <<>>, php, <<"n","g">>, <<":","1">>, <<"w","w">>}

InitMatch ==
    /\ input \in [container   : [name : MatchNames, image : MatchImages],
                  name_match  : MatchNameFilters,
                  image_match : MatchImageFilters]
    /\ output = Pending
    /\ MainIdle

ApplyMatch ==
    /\ ~output.done
    /\ output' = Done(ContainerMatch(input.container, input.name_match,
                                     input.image_match))
    /\ UNCHANGED <<input, mainVars>>

NextMatch == ApplyMatch
SpecMatch == InitMatch /\ [][NextMatch]_vars

\* C2: _container_match returns true exactly when no filter is set, or the
\* image filter (if set) is a substring of the image and the name filter (if
\* set) equals the name or is an allow-listed partial name contained in it;
\* a name filter that is neither allow-listed nor equal to the name never
\* matches.
C2_MatchRule ==
    output.done =>
        LET c  == input.container
            nf == input.name_match
            if == input.image_match
            nameSet  == nf # NoneSeq /\ Len(nf) > 0
            imageSet == if # NoneSeq /\ Len(if) > 0
            allowListed == nf \in {www, php, librenms}
            imageOk == ~imageSet \/ IsSubstring(if, c.image)
            nameOk  == \/ ~nameSet
                       \/ nf = c.name
                       \/ allowListed /\ IsSubstring(nf, c.name)
        IN  /\ output.val = ((~nameSet /\ ~imageSet) \/ (imageOk /\ nameOk))
            /\ (nameSet /\ ~allowListed /\ nf # c.name) => output.val = FALSE

\* A partial, inexact allow-listed name filter matched with an image filter.
C2_Witness ==
    /\ output.done /\ output.val = TRUE
    /\ input.name_match = www /\ input.container.name = <<"w","w","w","1">>
    /\ input.image_match = php

\* ---- human_time_diff ----
MaxDays == 800
Epoch == 100000000

TimeDeltas ==
    {sgn * (d * 86400 + h * 3600 + m * 60 + s) :
        sgn \in {1, -1}, d \in 0..MaxDays, h \in {0, 1, 23},
        m \in {0, 1, 59}, s \in {0, 1, 59}}

InitTime ==
    /\ input \in {[past |-> DateTime(Epoch, 0), now |-> DateTime(Epoch + d, 0)] :
                    d \in TimeDeltas}
    /\ output = Pending
    /\ MainIdle

ApplyTime ==
    /\ ~output.done
    /\ output' = Done(HumanTimeDiff(input.past, input.now))
    /\ UNCHANGED <<input, mainVars>>

NextTime == ApplyTime
SpecTime == InitTime /\ [][NextTime]_vars

\* The bucket table of the formatter: the unit and the count for d >= 0.
TableBucket(d) ==
    LET minutes == d \div 60
        hours   == minutes \div 60
        days    == hours \div 24
    IN  CASE d < 60          -> [unit |-> "second", n |-> d]
          [] minutes < 60    -> [unit |-> "minute", n |-> minutes]
          [] hours < 24      -> [unit |-> "hour",   n |-> hours]
          [] days < 7        -> [unit |-> "day",    n |-> days]
          [] days \div 7 < 5 -> [unit |-> "week",   n |-> days \div 7]
          [] days \div 30 < 12 -> [unit |-> "month", n |-> days \div 30]
          [] OTHER           -> [unit |-> "year",   n |-> days \div 365]

TablePhrase(b, lead, oneDay) ==
    IF b.unit = "day" /\ b.n = 1 THEN oneDay
    ELSE IF b.n = 1 /\ b.unit \notin {"second", "day"} THEN <<lead, "1", b.unit>>
    ELSE <<lead, ToString(b.n), b.unit \o "s">>

MaxEnv == 2
Now == DateTime(Epoch, 250000)

nginx == <<"n","g","i","n","x">>
python == <<"p","y","t","h","o","n">>
Tag == <<":","1">>

RawImages ==
    {php \o Tag, nginx \o Tag, python \o Tag, <<"d","b">> \o Tag,
     <<"r","/">> \o php \o Tag, nginx}
\* The labels of a raw record, by case: the key "labels" absent, an empty
\* dict, a version label that is empty, a version label that is set.
RawLabelCases == {"absent", "none", "blank", "set"}
RawLabels(case) ==
    CASE case = "blank" -> [x \in {"org.opencontainers.image.version"} |-> ""]
      [] case = "set"   -> [x \in {"org.opencontainers.image.version"} |-> "label-1"]
      [] OTHER          -> <<>>
EnvKeys ==
    {"PG_VERSION", "REDIS_VERSION", "INFLUXDB_VERSION", "PHP_VERSION",
     "NGINX_VERSION", "PYTHON_VERSION", "PATH"}
\* An environment dict in insertion order: distinct keys, each value empty
\* or naming its key.
RawEnvs ==
    {e \in UNION {[1..n -> EnvKeys \X {"", "set"}] : n \in 0..MaxEnv} :
        \A i, j \in 1..Len(e) : i # j => e[i][1] # e[j][1]}
EnvDict(e) == [i \in 1..Len(e) |->
                  <<e[i][1], IF e[i][2] = "" THEN "" ELSE "v-" \o e[i][1]>>]
RawTimes ==
    {[k |-> "iso", sec |-> Epoch - 86400 * 3, ns |-> 123456789],
     [k |-> "iso", sec |-> Epoch - 3600, ns |-> 0],
     [k |-> "bad"]}

RawBase ==
    [id |-> "c1", name |-> www, host_id |-> "h1", state |-> "running"]

\* A raw record: the base fields, an image, optional labels, created and
\* started, and the environment.
RawRecord(image, labels, env, created, started) ==
    [x \in {"id", "name", "host_id", "state", "image", "env"}
            \cup (IF labels = "absent" THEN {} ELSE {"labels"})
            \cup (IF created.k = "none" THEN {} ELSE {"created"})
            \cup (IF started.k = "none" THEN {} ELSE {"started"}) |->
        CASE x = "image"   -> image
          [] x = "labels"  -> RawLabels(labels)
          [] x = "env"     -> EnvDict(env)
          [] x = "created" -> created
          [] x = "started" -> started
          [] OTHER         -> RawBase[x]]

InitContainer ==
    /\ input \in {[cont |-> RawRecord(i, l, e, c, s), now |-> Now] :
                    i \in RawImages, l \in RawLabelCases,
                    e \in RawEnvs,
                    c \in {[k |-> "none"]} \cup RawTimes,
                    s \in {[k |-> "none"]} \cup RawTimes}
    /\ output = Pending
    /\ MainIdle

Construct ==
    /\ ~output.done
    /\ output' = Done(ContainerNew(input.cont, input.now))
    /\ UNCHANGED <<input, mainVars>>

NextContainer == Construct
SpecContainer == InitContainer /\ [][NextContainer]_vars

\* The value of environment variable key in a raw record, None if unset.
EnvValue(cont, key) ==
    IF \E i \in 1..Len(cont.env) : cont.env[i][1] = key
    THEN cont.env[CHOOSE i \in 1..Len(cont.env) : cont.env[i][1] = key][2]
    ELSE None

\* C5: construction yields a version that is the image-version label if
\* non-empty, else a non-empty PG_/REDIS_/INFLUXDB_VERSION value, else the
\* non-empty PHP_/NGINX_/PYTHON_VERSION value of a php/nginx/python image,
\* else "N/A"; image references with or without a tag, and any subset of
\* labels and environment variables.
C5_VersionChain ==
    output.done =>
        LET cont == input.cont
            label == IF "labels" \in DOMAIN cont
                     THEN Get(cont.labels, "org.opencontainers.image.version")
                     ELSE None
            dbVals == {EnvValue(cont, k) : k \in version_env_strings} \ {None, ""}
            base == AfterLast(BeforeFirst(cont.image, ":"), "/")
            own == CASE base = php    -> EnvValue(cont, "PHP_VERSION")
                     [] base = nginx  -> EnvValue(cont, "NGINX_VERSION")
                     [] base = python -> EnvValue(cont, "PYTHON_VERSION")
                     [] OTHER         -> None
        IN  /\ output.val.err = OK
            /\ LET v == Version(output.val.val) IN
               /\ v # ""
               /\ IF Truthy(label) THEN v = label
                  ELSE IF dbVals # {} THEN v \in dbVals
                  ELSE IF Truthy(own) THEN v = own
                  ELSE v = "N/A"

\* C10: created is the parse of the record's created timestamp and started
\* the parse of its started timestamp, each falling back to the current time
\* only when its own timestamp is missing or unparsable.
C10_CreatedStarted ==
    (output.done /\ output.val.err = OK) =>
        LET cont == input.cont
            c == output.val.val
            parsed(t) == IF t.k = "iso" THEN DateTime(t.sec, t.ns \div 1000)
                         ELSE input.now
        IN  /\ c.created = parsed(GetTs(cont, "created"))
            /\ c.started = parsed(GetTs(cont, "started"))

(***************************************************************************)
(* main(): one invocation against a remote service                         *)
(***************************************************************************)
MaxContainers == 2

running == <<"r","u","n","n","i","n","g">>
exited == <<"e","x","i","t","e","d">>

\* GET hosts
HostListing == <<[id |-> "h1", name |-> "A"], [id |-> "h2", name |-> "B"]>>

\* Records of GET containers.
SampleRecords ==
    {[id |-> "c1", name |-> www \o <<"1">>, host_id |-> "h1", state |-> running,
      image |-> php \o Tag, env |-> <<>>,
      labels |-> RawLabels("set"),
      created |-> [k |-> "iso", sec |-> Epoch - 86400 * 3, ns |-> 123456789],
      started |-> [k |-> "iso", sec |-> Epoch - 3600, ns |-> 0]],
     [id |-> "c2", name |-> <<"d","b">>, host_id |-> "h1", state |-> exited,
      image |-> <<"d","b">> \o Tag, env |-> <<>>,
      labels |-> RawLabels("none"),
      created |-> [k |-> "iso", sec |-> Epoch - 86400 * 3, ns |-> 0]],
     [id |-> "c1", name |-> www, host_id |-> "h2", state |-> running,
      image |-> nginx \o Tag, env |-> <<<<"NGINX_VERSION", "1.27">>>>,
      labels |-> RawLabels("none"),
      created |-> [k |-> "iso", sec |-> Epoch - 60, ns |-> 0]],
     [id |-> "c3", name |-> <<"x">>, host_id |-> "h1", state |-> running,
      image |-> nginx, env |-> <<>>,
      labels |-> RawLabels("none")]}

ContainerListings ==
    {l \in UNION {[1..n -> SampleRecords] : n \in 0..MaxContainers} :
        \A i, j \in 1..Len(l) : i # j => l[i] # l[j]}

\* GET updates/summary: containers_with_updates
Summaries ==
    {{}, {"h1:c1"}, {"h1:c1", "h2:c1"}, {"h1:c1", "h1:c2", "h2:c1"}}

\* Bodies of GET hosts/{host_id}/containers/{id}/update-status.
CheckedAt == [k |-> "iso", sec |-> Epoch - 7200, ns |-> 987654321]
DetailPayloads ==
    {[update_available |-> TRUE, current_version |-> "1.0",
      latest_version |-> "2.0", last_checked_at |-> CheckedAt],
     [update_available |-> TRUE, current_version |-> None,
      latest_version |-> "2.0", last_checked_at |-> CheckedAt],
     [update_available |-> TRUE, latest_version |-> "2.0"],
     [update_available |-> FALSE, current_version |-> "",
      latest_version |-> None]}
HTTPError == [http_error |-> TRUE]
DetailResponses == DetailPayloads \cup {HTTPError}

\* What a mutating POST answers: a 2xx body {status, message}, or a non-2xx
\* response with a body {detail}.
PostResponses == {"success", "failed", "http_no_update", "http_error"}
IsHttpError(resp) == resp \in {"http_no_update", "http_error"}

Flags == {"check_updates", "update", "restart"}

ArgSets ==
    [host : {None, "A"}, container : {NoneSeq, www},
     image : {NoneSeq, php}, updates_only : BOOLEAN,
     order : {"name", "update_available"},
     json : BOOLEAN,
     flags : {f \in SUBSET Flags : Cardinality(f) <= 1}]

InitMain ==
    /\ input = Unset /\ output = Pending
    /\ args \in ArgSets
    /\ \E l \in ContainerListings, s \in Summaries :
          /\ api = [hosts |-> HostListing, containers |-> l, summary |-> s,
                    now |-> Now]
          /\ fetches = [i \in 1..Len(l) |-> <<>>]
    /\ pc = "main" /\ idx = 0
    /\ hosts = <<>> /\ objs = <<>>
    /\ posts = <<>> /\ err = OK /\ stdout = <<>> /\ calls = <<>>

Crash(e) == pc' = "crashed" /\ err' = e

\* main() lines 545-546: check_updates(client) posts updates/check-all.
CheckAll(resp) ==
    /\ pc = "main"
    /\ "check_updates" \in args.flags
    /\ ~Truthy(args.host) /\ ~TruthySeq(args.container)
    /\ posts' = Append(posts, [op |-> "check-all", host |-> None, id |-> None])
    /\ IF IsHttpError(resp) THEN Crash("HTTPError")
       ELSE pc' = "done" /\ err' = err
    /\ UNCHANGED <<pureVars, args, api, idx, hosts, objs, fetches, stdout, calls>>

\* get_container_status lines 456-461: GET hosts and the Host objects of the
\* selected hosts.
SelectedHosts(listing, host) ==
    SelectSeq(listing, LAMBDA h : ~Truthy(host) \/ h.name = host)

GetHosts(ok) ==
    /\ pc = "main"
    /\ ~("check_updates" \in args.flags
            /\ ~Truthy(args.host) /\ ~TruthySeq(args.container))
    /\ IF ~ok THEN Crash("HTTPError") /\ hosts' = hosts
       ELSE /\ pc' = "gcs_listings" /\ err' = err
            /\ hosts' = LET sel == SelectedHosts(api.hosts, args.host) IN
                        [i \in 1..Len(sel) |->
                            [HostNew(sel[i]) EXCEPT !.container_order = args.order]]
    /\ UNCHANGED <<pureVars, args, api, idx, objs, fetches, posts, stdout, calls>>

\* lines 463-464: GET updates/summary, then GET containers.
GetListings(ok) ==
    /\ pc = "gcs_listings"
    /\ IF ~ok THEN Crash("HTTPError") /\ idx' = idx
       ELSE pc' = "gcs_loop" /\ idx' = 1 /\ err' = err
    /\ UNCHANGED <<pureVars, args, api, hosts, objs, fetches, posts, stdout, calls>>

HostPos(hs, id) ==
    IF \E i \in 1..Len(hs) : hs[i].id = id
    THEN CHOOSE i \in 1..Len(hs) : hs[i].id = id ELSE 0

\* Whether the loop body reaches the detail fetch for a constructed Container.
InWorkingSet(container) ==
    /\ HostPos(hosts, container.host_id) # 0
    /\ ContainerMatch(container, args.container, args.image)

FlaggedAlways(container) == TRUE
Flagged(container) == container.container_id \in api.summary

\* lines 473-475: the updates_only filter, then add_container.
Keep(container) ==
    IF args.updates_only /\ ~UpdateAvailable(container)
    THEN /\ hosts' = hosts /\ calls' = calls
         /\ objs' = Append(objs, container)
    ELSE LET r == AddContainer(hosts, Append(objs, container),
                               HostPos(hosts, container.host_id), idx)
         IN  /\ hosts' = r.hosts /\ objs' = r.objs
             /\ calls' = Append(calls, <<container.host_id, idx>>)

LoopAdvance == pc' = "gcs_loop" /\ idx' = idx + 1 /\ err' = err

\* One iteration of the loop of lines 465-475 that issues no detail fetch.
LoopNoFetch ==
    /\ pc = "gcs_loop" /\ idx <= Len(api.containers)
    /\ LET c == ContainerNew(api.containers[idx], api.now) IN
       IF c.err # OK
       THEN Crash(c.err) /\ UNCHANGED <<idx, hosts, objs, calls>>
       ELSE /\ ~(InWorkingSet(c.val) /\ Flagged(c.val))
            /\ LoopAdvance
            /\ IF InWorkingSet(c.val) THEN Keep(c.val)
               ELSE objs' = Append(objs, c.val) /\ UNCHANGED <<hosts, calls>>
    /\ UNCHANGED <<pureVars, args, api, fetches, posts, stdout>>

\* One iteration that issues the detail fetch, answered by resp, and merges it.
LoopFetch(resp) ==
    /\ pc = "gcs_loop" /\ idx <= Len(api.containers)
    /\ LET c == ContainerNew(api.containers[idx], api.now) IN
       /\ c.err = OK
       /\ InWorkingSet(c.val) /\ Flagged(c.val)
       /\ fetches' = [fetches EXCEPT ![idx] = Append(@, resp)]
       /\ IF resp = HTTPError
          THEN Crash("HTTPError") /\ UNCHANGED <<idx, hosts, objs, calls>>
          ELSE LET m == SetUpdateStatus(c.val, resp, api.now) IN
               IF m.err # OK
               THEN Crash(m.err) /\ UNCHANGED <<idx, hosts, objs, calls>>
               ELSE LoopAdvance /\ Keep(m.val)
    /\ UNCHANGED <<pureVars, args, api, posts, stdout>>

\* The return of get_container_status and the branch of main() it returns to.
LoopEnd ==
    /\ pc = "gcs_loop" /\ idx > Len(api.containers)
    /\ pc' = IF args.flags = {} THEN "render" ELSE "act"
    /\ idx' = 1
    /\ UNCHANGED <<pureVars, args, api, hosts, objs, fetches, posts, err, stdout, calls>>

\* `for host in hosts.values(): for container in host.containers`, flattened:
\* <<host position, container>> in iteration order.
RECURSIVE WorkFrom(_, _, _)
WorkFrom(hs, os, hp) ==
    IF hp > Len(hs) THEN <<>>
    ELSE LET cs == HostContainers(hs[hp], os)
         IN  [i \in 1..Len(cs) |-> <<hp, cs[i]>>] \o WorkFrom(hs, os, hp + 1)
WorkList == WorkFrom(hosts, objs, 1)

Post(op, w) ==
    posts' = Append(posts, [op |-> op, host |-> hosts[w[1]].id, id |-> objs[w[2]].id])

\* lines 548-554: check_updates(client, host.id, container.id); post() raises
\* on a non-2xx response and nothing catches it.  Nothing exits in --json mode.
ActCheckUpdate(resp) ==
    /\ pc = "act" /\ args.flags = {"check_updates"}
    /\ idx <= Len(WorkList)
    /\ Post("check-update", WorkList[idx])
    /\ IF IsHttpError(resp) THEN Crash("HTTPError") /\ idx' = idx
       ELSE pc' = pc /\ err' = err /\ idx' = idx + 1
    /\ UNCHANGED <<pureVars, args, api, hosts, objs, fetches, stdout, calls>>

\* lines 556-576 with execute_update / execute_restart: the HTTPError is
\* caught and returned as a result; in --json mode the result is printed and
\* sys.exit() ends the process.
ActExecuteNoExit(op, resp) ==
    /\ pc = "act" /\ args.flags = {op}
    /\ idx <= Len(WorkList)
    /\ Post(op, WorkList[idx])
    /\ idx' = idx + 1 /\ pc' = pc
    /\ stdout' = IF args.json THEN Append(stdout, resp) ELSE stdout
    /\ UNCHANGED <<pureVars, args, api, hosts, objs, fetches, err, calls>>

ActExecute(op, resp) ==
    /\ pc = "act" /\ args.flags = {op}
    /\ idx <= Len(WorkList)
    /\ Post(op, WorkList[idx])
    /\ idx' = idx + 1
    /\ IF args.json
       THEN pc' = "exited" /\ stdout' = Append(stdout, resp)
       ELSE pc' = pc /\ stdout' = stdout
    /\ UNCHANGED <<pureVars, args, api, hosts, objs, fetches, err, calls>>

ActEnd ==
    /\ pc = "act" /\ idx > Len(WorkList)
    /\ pc' = "done"
    /\ UNCHANGED <<pureVars, args, api, idx, hosts, objs, fetches, posts, err, stdout, calls>>

\* The as_dict calls of json_format, in order: work is the sequence of
\* <<host position, container>> that `[c.as_dict() for c in self.containers]`
\* visits over the hosts that have containers.  Each call acts on the objects
\* as the calls before it left them.
SerializeAll(work, hs, os, now) ==
    LET step(acc, ci) ==
            IF acc.err # OK THEN acc
            ELSE LET d == AsDict(acc.objs[ci], hs, now) IN
                 IF d.err # OK THEN [acc EXCEPT !.err = d.err]
                 ELSE [err  |-> OK,
                       objs |-> [acc.objs EXCEPT ![ci] = d.val.obj],
                       ret  |-> Append(acc.ret, d.val.ret)]
        after[k \in 0..Len(work)] ==
            IF k = 0 THEN [err |-> OK, objs |-> os, ret |-> <<>>]
            ELSE step(after[k - 1], work[k][2])
    IN  after[Len(work)]

\* Host.as_dict for every host with containers (json_format, line 163).
HostsAsDicts(hs, os, now) ==
    LET work == WorkFrom(hs, os, 1)
        done == SerializeAll(work, hs, os, now)
        with == SelectSeq([hp \in 1..Len(hs) |-> hp],
                          LAMBDA hp : Len(hs[hp]._containers) > 0)
        of(hp) == {k \in 1..Len(work) : work[k][1] = hp}
        first(hp) == CHOOSE k \in of(hp) : \A j \in of(hp) : k <= j
    IN  IF done.err # OK THEN Raise(done.err)
        ELSE Ret([objs |-> done.objs,
                  ret  |-> [i \in 1..Len(with) |->
                              [id   |-> hs[with[i]].id,
                               name |-> hs[with[i]].name,
                               containers |->
                                  SubSeq(done.ret, first(with[i]),
                                         first(with[i]) + Cardinality(of(with[i])) - 1)]]])

\* lines 579-582
RenderJson ==
    /\ pc = "render" /\ args.json
    /\ LET r == HostsAsDicts(hosts, objs, api.now) IN
       IF r.err # OK THEN Crash(r.err) /\ UNCHANGED <<objs, stdout>>
       ELSE /\ pc' = "done" /\ err' = err
            /\ objs' = r.val.objs
            /\ stdout' = IF r.val.ret # <<>> THEN r.val.ret
                         ELSE <<[message |-> "No containers matching the filter found"]>>
    /\ UNCHANGED <<pureVars, args, api, idx, hosts, fetches, posts, calls>>

\* lines 583-586: cli_format_host and cli_format_containers read the objects
\* and print one row per container.
RenderTable ==
    /\ pc = "render" /\ ~args.json
    /\ pc' = "done"
    /\ stdout' = [hp \in 1..Len(hosts) |->
                    LET cs == HostContainers(hosts[hp], objs) IN
                    [host |-> hosts[hp].name,
                     rows |-> [i \in 1..Len(cs) |->
                                 [name |-> objs[cs[i]].name,
                                  version |-> Version(objs[cs[i]]),
                                  update |-> UpdateAvailable(objs[cs[i]])]]]]
    /\ UNCHANGED <<pureVars, args, api, idx, hosts, objs, fetches, posts, err, calls>>

Next ==
    \/ \E resp \in PostResponses : CheckAll(resp)
    \/ \E ok \in BOOLEAN : GetHosts(ok)
    \/ \E ok \in BOOLEAN : GetListings(ok)
    \/ LoopNoFetch
    \/ \E resp \in DetailResponses : LoopFetch(resp)
    \/ LoopEnd
    \/ \E resp \in PostResponses : ActCheckUpdate(resp)
    \/ \E op \in {"update", "restart"}, resp \in PostResponses : ActExecute(op, resp)
    \/ ActEnd
    \/ RenderJson
    \/ RenderTable

Spec == InitMain /\ [][Next]_vars

\* ---- claims about one invocation ----
\* The claim's working set and flag, read off the listing record i.
RecordSelected(i) ==
    LET r == api.containers[i] IN
    /\ \E h \in 1..Len(api.hosts) :
          /\ api.hosts[h].id = r.host_id
          /\ args.host \in {None, "", api.hosts[h].name}
    /\ ContainerMatch(r, args.container, args.image)
RecordFlagged(i) ==
    LET r == api.containers[i] IN (r.host_id \o ":" \o r.id) \in api.summary

\* get_container_status has returned to main().
StatusReturned ==
    \/ pc \in {"render", "act", "exited"}
    \/ pc = "done" /\ (posts = <<>> \/ posts[1].op # "check-all")

\* C1: in one run of get_container_status every listed container that is in
\* the working set and flagged in the summary gets exactly one detail fetch,
\* every other listed container gets none, and the fetches never outnumber
\* the flagged containers.
C1_FetchOncePerFlagged ==
    LET n == Len(api.containers)
        due(i) == IF RecordSelected(i) /\ RecordFlagged(i) THEN 1 ELSE 0
    IN  pc # "idle" =>
        /\ \A i \in 1..n : Len(fetches[i]) <= due(i)
        /\ StatusReturned => \A i \in 1..n : Len(fetches[i]) = due(i)
        /\ Cardinality({i \in 1..n : Len(fetches[i]) > 0})
              <= Cardinality({i \in 1..n : RecordFlagged(i)})

\* A finished run with a fetched container and a flagged one outside the
\* working set that was not fetched.
C1_Witness ==
    /\ pc = "done" /\ Len(api.containers) = 2
    /\ \E i, j \in 1..2 :
          /\ Len(fetches[i]) = 1
          /\ RecordFlagged(j) /\ ~RecordSelected(j) /\ Len(fetches[j]) = 0

\* C4: merging a detail payload completes without error; a non-empty
\* current_version of the payload is kept, and when the payload omits it
\* (key absent or empty) and the local version is resolved, current_version
\* becomes the local version.
C4_MergeBackfill ==
    pc # "idle" =>
    \A i \in 1..Len(api.containers) :
        (fetches[i] # <<>> /\ fetches[i][1] # HTTPError) =>
            LET p == fetches[i][1]
                omitted == \/ "current_version" \notin DOMAIN p
                           \/ p.current_version \in {None, ""}
            IN  /\ i \in DOMAIN objs
                /\ ~omitted =>
                      objs[i]._update_status.current_version = p.current_version
                /\ (omitted /\ objs[i]._version \notin {None, ""}) =>
                      objs[i]._update_status.current_version = objs[i]._version

\* The per-container mutating requests main() issues.
ActStarted == args.flags # {} /\ posts # <<>> /\ posts[1].op # "check-all"
ActOver == ActStarted /\ pc \in {"done", "crashed", "exited"}

\* C6: in interactive mode a failed request for one matched container does
\* not abort the run: the run ends with exactly one request issued for each
\* matched container, in order, whatever the responses were.
C6_InteractiveContinues ==
    (pc # "idle" /\ ~args.json /\ ActOver) =>
        /\ pc = "done"
        /\ Len(posts) = Len(WorkList)
        /\ \A i \in 1..Len(posts) :
              /\ posts[i].host = hosts[WorkList[i][1]].id
              /\ posts[i].id = objs[WorkList[i][2]].id

C9_UpdateStatusFrame ==
    /\ [](pc # "idle" =>
            \A i \in DOMAIN objs :
                ~(RecordSelected(i) /\ RecordFlagged(i)) =>
                    objs[i]._update_status = [update_available |-> FALSE])
    /\ [][pc # "idle" =>
            \A i \in DOMAIN objs :
                objs'[i]._update_status = objs[i]._update_status]_vars

(***************************************************************************)
(* Host.add_container and the Host.containers setter, called in any order  *)
(* on two Host objects and the Container objects of a listing.             *)
(***************************************************************************)
MaxAdds == 3

\* The listings whose records all construct.
SoundListings ==
    {l \in ContainerListings :
        Len(l) >= 1 /\ \A i \in 1..Len(l) : ContainerNew(l[i], Now).err = OK}

InitHost ==
    /\ input = Unset /\ output = Pending
    /\ args = Unset /\ api = Unset /\ pc = "idle" /\ idx = 0
    /\ fetches = <<>> /\ posts = <<>> /\ err = OK /\ stdout = <<>>
    /\ \E order \in {"name", "update_available"} :
          hosts = [i \in 1..Len(HostListing) |->
                     [HostNew(HostListing[i]) EXCEPT !.container_order = order]]
    /\ \E l \in SoundListings :
          objs = [i \in 1..Len(l) |-> ContainerNew(l[i], Now).val]
    /\ calls = <<>>

\* host.add_container(container)
HostAddContainer(hp, ci) ==
    /\ Len(calls) < MaxAdds
    /\ LET r == AddContainer(hosts, objs, hp, ci) IN
       hosts' = r.hosts /\ objs' = r.objs
    /\ calls' = Append(calls, <<hosts[hp].id, ci>>)
    /\ UNCHANGED <<pureVars, args, api, pc, idx, fetches, posts, err, stdout>>

\* host.containers = containers
HostSetContainers(hp, containers) ==
    /\ containers # <<>>
    /\ Len(calls) + Len(containers) <= MaxAdds
    /\ LET r == SetContainers(hosts, objs, hp, containers) IN
       hosts' = r.hosts /\ objs' = r.objs
    /\ calls' = calls \o [i \in 1..Len(containers) |-> <<hosts[hp].id, containers[i]>>]
    /\ UNCHANGED <<pureVars, args, api, pc, idx, fetches, posts, err, stdout>>

\* The lists a caller can assign: a list of Container objects, or what the
\* containers getter of some Host returns.
AssignableLists ==
    UNION {[1..n -> DOMAIN objs] : n \in 1..2}
        \cup {HostContainers(hosts[h], objs) : h \in 1..Len(hosts)}

NextHost ==
    \/ \E hp \in 1..Len(hosts), ci \in DOMAIN objs : HostAddContainer(hp, ci)
    \/ \E hp \in 1..Len(hosts), l \in AssignableLists : HostSetContainers(hp, l)

SpecHost == InitHost /\ [][NextHost]_vars

\* Where Container ci occurs: <<host position, position in _containers>>.
Occurrences(ci) ==
    {<<h, p>> \in (1..Len(hosts)) \X (1..MaxAdds + 1) :
        p <= Len(hosts[h]._containers) /\ hosts[h]._containers[p] = ci}
TimesAdded(ci) == Cardinality({k \in 1..Len(calls) : calls[k][2] = ci})

\* C8 as claimed: after any sequence of add_container calls and containers
\* assignments each Container is in at most one Host's collection, at most
\* once, and its back-reference is the Host whose collection contains it.
C8_SingleOwner ==
    \A ci \in DOMAIN objs :
        /\ Cardinality(Occurrences(ci)) <= 1
        /\ \A o \in Occurrences(ci) : objs[ci].host = hosts[o[1]].id

\* C8 amended: the same holds of every Container that has been added at most
\* once (as get_container_status adds them); a Container never added is in
\* no collection and has no back-reference.
C8_SingleOwnerIfAddedOnce ==
    \A ci \in DOMAIN objs :
        TimesAdded(ci) <= 1 =>
            /\ Cardinality(Occurrences(ci)) = TimesAdded(ci)
            /\ \A o \in Occurrences(ci) : objs[ci].host = hosts[o[1]].id
            /\ Occurrences(ci) = {} => objs[ci].host = None

\* Two Containers: one added once to the second Host, the other added twice.
C8_Witness ==
    /\ pc = "idle" /\ Len(objs) = 2
    /\ \E ci, cj \in DOMAIN objs :
          /\ TimesAdded(ci) = 1 /\ Occurrences(ci) = {<<2, 1>>}
          /\ objs[ci].host = "h2"
          /\ TimesAdded(cj) = 2

\* The uniqueness invariant of C8 in the runs of main(): get_container_status
\* adds each Container it constructs at most once, so every Container is in
\* at most one Host's collection, once, with its back-reference on that Host.
SingleOwnerInRun ==
    pc # "idle" =>
        /\ \A ci \in DOMAIN objs : TimesAdded(ci) <= 1
        /\ C8_SingleOwner

\* C11: for every delta of at least 60 whole seconds, in either direction,
\* the count the formatter renders is at least 1: no "for 0 <unit>" or
\* "in 0 <unit>" in the minute, hour, day, week, month or year buckets.
C11_CountAtLeastOne ==
    output.done =>
        LET d == input.now.sec - input.past.sec
            a == IF d >= 0 THEN d ELSE -d
        IN  (a >= 60 /\ Len(output.val) = 3) => output.val[2] # "0"

====
